---- MODULE Spec2Model ----
(***************************************************************************)
(* Rayyan Nutrition Tracker: the result screen (ResultScreen) that submits *)
(* a captured image to the remote analyzer, and its collaborators.         *)
(*                                                                         *)
(* Every invocation of the async function analyzeImage that passes its     *)
(* guard is a request r in 1..MaxReq with its own position (pc); every     *)
(* invocation of handleSave that passes its guard is a save s in           *)
(* 1..MaxSave.  Each step of the model is one run-to-completion turn of   *)
(* the JavaScript event loop: an event handler, an effect, a timer         *)
(* callback, or the continuation of one await.  A state variable of the    *)
(* screen holds the value last passed to its setter; an unmounted screen   *)
(* renders nothing (View = "none") while its pending awaits still resume.  *)
(***************************************************************************)
EXTENDS Integers, Sequences, FiniteSets

VARIABLES
    os,                 \* Platform.OS of the build: "web" or "native"
    phase,              \* "init" (rendered, effects not yet run), "mounted", "unmounted"
    params,             \* useLocalSearchParams(): [id, imageUri, notes]
    isLoading,          \* useState(false)
    error,              \* useState<string | null>(null)
    result,             \* useState<HistoryEntry | null>(null)
    isSaving,           \* useState(false)
    htmlContent,        \* useState<string | null>(null)
    currentTipIndex,    \* useState(0)
    abortControllerRef, \* useRef<AbortController | null>(null): 0 is null
    abortedBy,          \* per AbortController: "none", or what called abort() first
    reqs,               \* the invocations of analyzeImage
    nreq,               \* how many invocations of analyzeImage passed the guard
    skipped,            \* how many calls of analyzeImage returned at the guard
    saves,              \* the invocations of handleSave
    nsave,              \* how many invocations of handleSave passed the guard
    history,            \* nutrition store: the saved entries
    currentResult,      \* nutrition store: the current result
    nextId,             \* generateId(): the next identifier handed out
    normalizeCalls,     \* how many times normalizeNutritionData was called
    now,                \* the clock read by Date.now() and by the timers, in ms
    lastAlert,          \* the last Alert.alert shown
    retryPresses,       \* how many times Retry was pressed
    navs                \* how many times the route parameters changed

\* the camera screen
VARIABLES
    cameraPhase,        \* "mounted", or "unmounted" once the router left the screen
    permission,         \* useCameraPermissions(): "null", "denied" or "granted"
    facing,             \* useState<CameraType>("back")
    flash,              \* useState(false)
    capturedImage,      \* useState<string | null>(null): "" is null
    isProcessing,       \* useState(false)
    captures,           \* the invocations of takePicture
    ncapture,           \* how many have been made
    picks,              \* the invocations of pickImage
    npick,              \* how many have been made
    router,             \* the last call made on the router
    cameraAlerts        \* how many times Alert.alert("Error", ...) was called

\* the health-tip rotation of the result screen
VARIABLES
    tipInterval,        \* the setInterval of the rotation effect is installed
    fadeAnim            \* the fade of the tip card: "rest" or "running"

tipVars == <<tipInterval, fadeAnim>>

camVars == <<cameraPhase, permission, facing, flash, capturedImage,
             isProcessing, captures, ncapture, picks, npick, router,
             cameraAlerts>>

vars == <<os, phase, params, isLoading, error, result, isSaving, htmlContent,
          currentTipIndex, abortControllerRef, abortedBy, reqs, nreq, skipped,
          saves, nsave, history, currentResult, nextId, normalizeCalls, now,
          lastAlert, retryPresses, navs, camVars, tipVars>>

\* ------------------------------------------------------------------ bounds
MaxReq == 2
MaxSave == 2
MaxNav == 1
MaxNow == 120000
TickMs == 60000
MaxCapture == 2
MaxPick == 2

\* --------------------------------------------------------------- constants
TIMEOUT_MS == 60000
TimeoutMsg == "Request timed out after 60 seconds. Please try again with a clearer image."
FailureMsg == "Failed to analyze image. Please check your connection and try again."
NoError == "null"
NoHtml == "null"
NoController == 0
HEALTH_TIPS_LENGTH == 6

\* ------------------------------------------------------------------- types
Uris == {"file:///a.jpg", "file:///b.png"}
NotesValues == {"", "lunch"}

\* a HistoryEntry; NullEntry stands for null
NullEntry ==
    [calories_kcal |-> 0, servings |-> 0, id |-> 0, timestamp |-> 0,
     imageThumb |-> "", notes |-> ""]

\* an entry saved by an earlier session
OldEntry ==
    [calories_kcal |-> 120, servings |-> 1, id |-> 1, timestamp |-> 0,
     imageThumb |-> "file:///old.jpg", notes |-> ""]

\* decoded JSON bodies the analyzer may answer with
Payloads ==
    {[calories |-> 250, servings |-> 2], [calories |-> 0 - 5, servings |-> 0]}

NoPayload == [calories |-> 0, servings |-> 0]

\* HTML bodies the analyzer may answer with; the body may be empty
Htmls == {"<html>preview</html>", ""}

\* the response of the analyzer as fetch resolves it
NoResponse == [ok |-> FALSE, contentType |-> "", html |-> "", data |-> NoPayload]

Responses ==
    {[ok |-> FALSE, contentType |-> "", html |-> "", data |-> NoPayload]}
    \cup {[ok |-> TRUE, contentType |-> "text/html; charset=utf-8", html |-> h,
           data |-> NoPayload] : h \in Htmls}
    \cup {[ok |-> TRUE, contentType |-> ct, html |-> "", data |-> d] :
             ct \in {"", "application/json"}, d \in Payloads}

\* the camera screen: what takePictureAsync and the image library return
PhotoUris == {"file:///photo1.jpg", "file:///photo2.jpg"}
AssetUris == {"file:///asset1.jpg"}
NoImage == ""
NoPhoto == "undefined"
Canceled == "canceled"
NoAsset == "no asset"

\* the invocations of takePicture and of pickImage.  A takePicture is
\* "idle", "haptic", "capturing", and once it has returned "photo", "empty"
\* (takePictureAsync gave undefined), "failed" (the catch block ran) or
\* "done" (it ended before the try); a pickImage is "idle", "launching",
\* "picking", and once it has returned "asset", Canceled, NoAsset or "failed"
CaptureIds == 1..MaxCapture
PickIds == 1..MaxPick

\* the calls on the router: none yet, back(), replace("./result", {imageUri})
NoNavigation == [op |-> "none", imageUri |-> NoImage]
Back == [op |-> "back", imageUri |-> NoImage]
Replace(imageUri) == [op |-> "replace", imageUri |-> imageUri]

\* one invocation of analyzeImage
NoReq ==
    [pc |-> "idle", imageUri |-> "", notes |-> "", startedAt |-> 0,
     timer |-> "none", signal |-> NoController, formImage |-> "",
     formNotes |-> "", response |-> NoResponse]

\* an invocation that has returned: its locals are gone
DoneReq == [NoReq EXCEPT !.pc = "done"]

\* one invocation of handleSave
NoSave == [pc |-> "idle", entry |-> NullEntry]

\* an invocation that has returned
DoneSave == [NoSave EXCEPT !.pc = "done"]

ReqIds == 1..MaxReq
SaveIds == 1..MaxSave


ParamSpace ==
    [id : {0, 1, 7}, imageUri : {""} \cup Uris, notes : NotesValues]

\* ---------------------------------------------------------- pure functions

\* utils/nutrition normalizeNutritionData: every numeric field non-negative,
\* servings positive with default 1
normalizeNutritionData(data) ==
    [calories_kcal |-> IF data.calories < 0 THEN 0 ELSE data.calories,
     servings |-> IF data.servings <= 0 THEN 1 ELSE data.servings]

\* utils/nutrition generateId: a value never handed out before
generateId == nextId

\* nutrition store saveHistory, when it succeeds: the entry is appended
saveHistory(h, entry) == Append(h, entry)

\* history.find((item) => item.id === params.id): the first match, or null
FindEntry(h, id) ==
    IF \E i \in 1..Len(h) : h[i].id = id
    THEN h[CHOOSE i \in 1..Len(h) :
                /\ h[i].id = id
                /\ \A j \in 1..(i - 1) : h[j].id # id]
    ELSE NullEntry

\* the content type compared as a whole instead of searched
IsHtml_Exact(contentType) == contentType = "text/html"

\* contentType.includes('text/html')
IsHtml(contentType) == contentType \in {"text/html", "text/html; charset=utf-8"}

\* analyzeImage without its guard
RequestInProgress_Never == FALSE

\* the guard of analyzeImage
RequestInProgress == isLoading \/ abortControllerRef # NoController

\* the catch block testing for a name fetch never rejects with
ErrorMessage_WrongName(errName) ==
    IF errName = "TimeoutError" THEN TimeoutMsg ELSE FailureMsg

\* the catch block's choice of message
ErrorMessage(errName) ==
    IF errName = "AbortError" THEN TimeoutMsg ELSE FailureMsg

\* the thumbnail taken from the current route parameters instead of the
\* argument of the call
BuildEntry_ParamsUri(normalized, imageUri, p) ==
    [calories_kcal |-> normalized.calories_kcal,
     servings |-> normalized.servings,
     id |-> generateId,
     timestamp |-> now,
     imageThumb |-> params.imageUri,
     notes |-> p.notes]

\* the entry analyzeImage builds from a normalized record
BuildEntry(normalized, imageUri, p) ==
    [calories_kcal |-> normalized.calories_kcal,
     servings |-> normalized.servings,
     id |-> generateId,
     timestamp |-> now,
     imageThumb |-> imageUri,
     notes |-> p.notes]

\* the guard of handleSave
CanSave == result # NullEntry /\ ~isSaving

\* clearTimeout(timeoutId): a timer that already ran stays as it is
ClearTimeout(t) == IF t = "armed" THEN "cleared" ELSE t

\* controller.abort(): the first call decides, later calls change nothing
Abort(c, cause) ==
    IF c # NoController /\ abortedBy[c] = "none"
    THEN [abortedBy EXCEPT ![c] = cause]
    ELSE abortedBy

Aborted(c) == c # NoController /\ abortedBy[c] # "none"

\* what the component renders
View ==
    IF phase = "unmounted" THEN "none"
    ELSE IF isLoading THEN "loading"
    ELSE IF error # NoError THEN "error"
    ELSE IF result = NullEntry /\ htmlContent \in {NoHtml, ""} THEN "blank"
    ELSE "content"

isFromHistory == params.id # 0

SaveShown == View = "content" /\ ~isFromHistory /\ result # NullEntry
RetryShown == View = "error"

InFlight == {r \in ReqIds : reqs[r].pc \notin {"idle", "done"}}

\* -------------------------------------------------------------------- Init

\* the camera screen after its first render
CameraInit ==
    /\ cameraPhase = "mounted"
    /\ permission = "null"
    /\ facing = "back"
    /\ flash = FALSE
    /\ capturedImage = NoImage
    /\ isProcessing = FALSE
    /\ captures = [c \in CaptureIds |-> "idle"]
    /\ ncapture = 0
    /\ picks = [k \in PickIds |-> "idle"]
    /\ npick = 0
    /\ router = NoNavigation
    /\ cameraAlerts = 0

\* the result screen after its first render, before its effects run
Init ==
    /\ os \in {"web", "native"}
    /\ phase = "init"
    /\ params \in ParamSpace
    /\ isLoading = FALSE
    /\ error = NoError
    /\ result = NullEntry
    /\ isSaving = FALSE
    /\ htmlContent = NoHtml
    /\ currentTipIndex = 0
    /\ abortControllerRef = NoController
    /\ abortedBy = [c \in ReqIds |-> "none"]
    /\ reqs = [r \in ReqIds |-> NoReq]
    /\ nreq = 0
    /\ skipped = 0
    /\ saves = [s \in SaveIds |-> NoSave]
    /\ nsave = 0
    /\ history = <<OldEntry>>
    /\ currentResult = NullEntry
    /\ nextId = 2
    /\ normalizeCalls = 0
    /\ now = 0
    /\ lastAlert = "none"
    /\ retryPresses = 0
    /\ navs = 0
    /\ tipInterval = FALSE
    /\ fadeAnim = "rest"
    /\ CameraInit

saveVars == <<saves, nsave, isSaving, lastAlert>>
storeVars == <<history, currentResult, nextId, normalizeCalls>>
routeVars == <<os, phase, params, navs>>

\* ------------------------------------------------------------ analyzeImage

\* an invocation of analyzeImage(imageUri) from a render whose route
\* parameters are p, up to its first await; errBefore is the error state
\* the caller leaves behind
AnalyzeImage(imageUri, p, errBefore) ==
    IF RequestInProgress
    THEN /\ skipped' = skipped + 1
         /\ error' = errBefore
         /\ UNCHANGED <<isLoading, htmlContent, currentTipIndex,
                        abortControllerRef, abortedBy, reqs, nreq>>
    ELSE /\ nreq < MaxReq
         /\ nreq' = nreq + 1
         /\ isLoading' = TRUE
         /\ error' = NoError
         /\ htmlContent' = NoHtml
         /\ currentTipIndex' = 0
         /\ abortControllerRef' = nreq + 1
         /\ abortedBy' = [abortedBy EXCEPT ![nreq + 1] = "none"]
         /\ reqs' = [reqs EXCEPT ![nreq + 1] =
                [NoReq EXCEPT
                    !.pc = IF os = "web" THEN "fetchImage" ELSE "post",
                    !.imageUri = imageUri,
                    !.notes = p.notes,
                    !.startedAt = now,
                    !.timer = "armed",
                    !.signal = IF os = "web" THEN NoController ELSE nreq + 1,
                    !.formImage = IF os = "web" THEN "" ELSE imageUri,
                    !.formNotes = IF os = "web" THEN "" ELSE p.notes]]
         /\ UNCHANGED skipped

\* an effect that looks at params.imageUri before params.id
RunEffect_ImageFirst(p) ==
    IF p.imageUri # ""
    THEN /\ AnalyzeImage(p.imageUri, p, error)
         /\ UNCHANGED result
    ELSE IF p.id # 0
    THEN /\ result' = IF FindEntry(history, p.id) # NullEntry
                      THEN FindEntry(history, p.id) ELSE result
         /\ UNCHANGED <<isLoading, error, htmlContent, currentTipIndex,
                        abortControllerRef, abortedBy, reqs, nreq, skipped>>
    ELSE UNCHANGED <<result, isLoading, error, htmlContent, currentTipIndex,
                     abortControllerRef, abortedBy, reqs, nreq, skipped>>

\* the effect keyed on [params.id, params.imageUri], run for parameters p
RunEffect(p) ==
    IF p.id # 0
    THEN /\ result' = IF FindEntry(history, p.id) # NullEntry
                      THEN FindEntry(history, p.id) ELSE result
         /\ UNCHANGED <<isLoading, error, htmlContent, currentTipIndex,
                        abortControllerRef, abortedBy, reqs, nreq, skipped>>
    ELSE IF p.imageUri # ""
    THEN /\ AnalyzeImage(p.imageUri, p, error)
         /\ UNCHANGED result
    ELSE UNCHANGED <<result, isLoading, error, htmlContent, currentTipIndex,
                     abortControllerRef, abortedBy, reqs, nreq, skipped>>

\* the first run of the effects, after the first render
Mount ==
    /\ phase = "init"
    /\ phase' = "mounted"
    /\ RunEffect(params)
    /\ UNCHANGED <<camVars, tipVars>>
    /\ UNCHANGED <<os, params, navs, saveVars, storeVars, now, retryPresses>>

\* the route parameters change while the screen stays mounted; the effect
\* runs again when params.id or params.imageUri changed
ParamChange(p) ==
    /\ phase = "mounted"
    /\ navs < MaxNav
    /\ p # params
    /\ params' = p
    /\ navs' = navs + 1
    /\ IF p.id # params.id \/ p.imageUri # params.imageUri
       THEN RunEffect(p)
       ELSE UNCHANGED <<result, isLoading, error, htmlContent, currentTipIndex,
                        abortControllerRef, abortedBy, reqs, nreq, skipped>>
    /\ UNCHANGED <<camVars, tipVars>>
    /\ UNCHANGED <<os, phase, saveVars, storeVars, now, retryPresses>>

\* the cleanups of the effects on unmount: the controller in the ref is
\* aborted, the rotation interval is cleared
Unmount ==
    /\ phase = "mounted"
    /\ phase' = "unmounted"
    /\ abortedBy' = Abort(abortControllerRef, "unmount")
    /\ tipInterval' = FALSE
    /\ UNCHANGED <<camVars, fadeAnim>>
    /\ UNCHANGED <<os, params, navs, isLoading, error, result, htmlContent,
                   currentTipIndex, abortControllerRef, reqs, nreq, skipped,
                   saveVars, storeVars, now, retryPresses>>

\* onPress of the Retry button of the error view
RetryPress ==
    /\ RetryShown
    /\ retryPresses < MaxReq
    /\ retryPresses' = retryPresses + 1
    /\ IF params.imageUri # ""
       THEN AnalyzeImage(params.imageUri, params, NoError)
       ELSE UNCHANGED <<isLoading, error, htmlContent, currentTipIndex,
                        abortControllerRef, abortedBy, reqs, nreq, skipped>>
    /\ UNCHANGED <<routeVars, camVars, tipVars, result, saveVars, storeVars, now>>

\* a timer that is armed and not yet due
Waiting(r) == reqs[r].timer = "armed" /\ now < reqs[r].startedAt + TIMEOUT_MS

\* time passes; the clock stops at MaxNow unless a timer is still waiting
Tick ==
    /\ now + TickMs <= MaxNow \/ \E r \in ReqIds : Waiting(r)
    /\ now' = now + TickMs
    /\ UNCHANGED <<routeVars, camVars, tipVars, isLoading, error, result, htmlContent,
                   currentTipIndex, abortControllerRef, abortedBy, reqs, nreq,
                   skipped, saveVars, storeVars, retryPresses>>

\* the setTimeout callback of request r
TimerFire(r) ==
    /\ reqs[r].timer = "armed"
    /\ now >= reqs[r].startedAt + TIMEOUT_MS
    /\ reqs' = [reqs EXCEPT ![r].timer = "fired"]
    /\ abortedBy' = Abort(abortControllerRef, "deadline")
    /\ UNCHANGED <<routeVars, camVars, tipVars, isLoading, error, result, htmlContent,
                   currentTipIndex, abortControllerRef, nreq, skipped,
                   saveVars, storeVars, now, retryPresses>>

\* invocation r of analyzeImage has returned; a timer that is still armed
\* outlives it, one that was cleared or has run is gone
Outlives(t) == IF t = "armed" THEN "armed" ELSE "none"

Returned(r) == [DoneReq EXCEPT !.timer = Outlives(reqs[r].timer)]

\* a finally block that ends the loading state and leaves the controller in
\* the ref
Finally_KeepController ==
    /\ isLoading' = FALSE
    /\ UNCHANGED abortControllerRef

\* the finally block of analyzeImage
Finally ==
    /\ abortControllerRef' = NoController
    /\ isLoading' = FALSE

\* a catch block without clearTimeout(timeoutId)
Catch_KeepTimer(r, errName) ==
    /\ reqs' = [reqs EXCEPT ![r] = [Returned(r) EXCEPT
                                        !.startedAt = reqs[r].startedAt]]
    /\ error' = ErrorMessage(errName)
    /\ Finally

\* the catch block of analyzeImage for an error named errName, then finally
Catch(r, errName) ==
    /\ reqs' = [reqs EXCEPT ![r] =
            [DoneReq EXCEPT !.timer = Outlives(ClearTimeout(reqs[r].timer))]]
    /\ error' = ErrorMessage(errName)
    /\ Finally

\* web: await fetch(imageUri) resolves
FetchImageResolve(r) ==
    /\ reqs[r].pc = "fetchImage"
    /\ reqs' = [reqs EXCEPT ![r].pc = "blob"]
    /\ UNCHANGED <<routeVars, camVars, tipVars, isLoading, error, result, htmlContent,
                   currentTipIndex, abortControllerRef, abortedBy, nreq,
                   skipped, saveVars, storeVars, now, retryPresses>>

\* web: await fetch(imageUri) rejects; the image fetch carries no signal
FetchImageReject(r) ==
    /\ reqs[r].pc = "fetchImage"
    /\ Catch(r, "TypeError")
    /\ UNCHANGED <<routeVars, camVars, tipVars, result, htmlContent, currentTipIndex, abortedBy,
                   nreq, skipped, saveVars, storeVars, now, retryPresses>>

\* web: await response.blob() resolves; the form is completed and the POST
\* is sent with the signal of the controller the ref holds at that moment
BlobResolve(r) ==
    /\ reqs[r].pc = "blob"
    /\ IF abortControllerRef = NoController
       THEN /\ Catch(r, "TypeError")
            /\ UNCHANGED abortedBy
       ELSE /\ reqs' = [reqs EXCEPT ![r].pc = "post",
                                    ![r].formImage = reqs[r].imageUri,
                                    ![r].formNotes = reqs[r].notes,
                                    ![r].signal = abortControllerRef]
            /\ UNCHANGED <<abortControllerRef, abortedBy, isLoading, error>>
    /\ UNCHANGED <<routeVars, camVars, tipVars, result, htmlContent, currentTipIndex, nreq,
                   skipped, saveVars, storeVars, now, retryPresses>>

\* web: await response.blob() rejects
BlobReject(r) ==
    /\ reqs[r].pc = "blob"
    /\ Catch(r, "TypeError")
    /\ UNCHANGED <<routeVars, camVars, tipVars, result, htmlContent, currentTipIndex, abortedBy,
                   nreq, skipped, saveVars, storeVars, now, retryPresses>>

\* await fetch(WEBHOOK_URL, ...) resolves with a response: clearTimeout,
\* then the status and the content type decide the next await
PostResolve(r, resp) ==
    /\ reqs[r].pc = "post"
    /\ ~Aborted(reqs[r].signal)
    /\ IF ~resp.ok
       THEN Catch(r, "Error")
       ELSE /\ reqs' = [reqs EXCEPT ![r].pc = IF IsHtml(resp.contentType)
                                              THEN "text" ELSE "json",
                                    ![r].timer = ClearTimeout(@),
                                    ![r].response = resp]
            /\ UNCHANGED <<abortControllerRef, isLoading, error>>
    /\ UNCHANGED <<routeVars, camVars, tipVars, result, htmlContent, currentTipIndex, abortedBy,
                   nreq, skipped, saveVars, storeVars, now, retryPresses>>

\* a rejected POST sent again on its own instead of reported
PostReject_AutoRetry(r) ==
    /\ reqs[r].pc = "post"
    /\ IF nreq < MaxReq
       THEN /\ reqs' = [reqs EXCEPT
                    ![r] = [DoneReq EXCEPT
                        !.timer = Outlives(ClearTimeout(reqs[r].timer))],
                    ![nreq + 1] = [reqs[r] EXCEPT !.startedAt = now,
                                                  !.timer = "armed",
                                                  !.signal = nreq + 1]]
            /\ nreq' = nreq + 1
            /\ abortControllerRef' = nreq + 1
            /\ UNCHANGED <<isLoading, error>>
       ELSE /\ Catch(r, IF Aborted(reqs[r].signal) THEN "AbortError"
                        ELSE "TypeError")
            /\ UNCHANGED nreq
    /\ UNCHANGED <<routeVars, camVars, tipVars, result, htmlContent, currentTipIndex, abortedBy,
                   skipped, saveVars, storeVars, now, retryPresses>>

\* await fetch(WEBHOOK_URL, ...) rejects: with an AbortError when its signal
\* is aborted, with a transport error otherwise
PostReject(r) ==
    /\ reqs[r].pc = "post"
    /\ Catch(r, IF Aborted(reqs[r].signal) THEN "AbortError" ELSE "TypeError")
    /\ UNCHANGED <<routeVars, camVars, tipVars, result, htmlContent, currentTipIndex, abortedBy,
                   nreq, skipped, saveVars, storeVars, now, retryPresses>>

\* the HTML branch without its return: the preview is set and the code
\* below it goes on to normalize, build an entry and publish it
TextResolve_FallThrough(r) ==
    /\ reqs[r].pc = "text"
    /\ htmlContent' = reqs[r].response.html
    /\ LET normalized == normalizeNutritionData(reqs[r].response.data)
           entry == BuildEntry(normalized, reqs[r].imageUri, reqs[r])
       IN  /\ result' = entry
           /\ currentResult' = entry
    /\ nextId' = nextId + 1
    /\ normalizeCalls' = normalizeCalls + 1
    /\ reqs' = [reqs EXCEPT ![r] = Returned(r)]
    /\ Finally
    /\ UNCHANGED <<routeVars, camVars, tipVars, error, currentTipIndex, abortedBy, nreq, skipped,
                   saveVars, history, now, retryPresses>>

\* the HTML branch without setResult(null) and setCurrentResult(null)
TextResolve_KeepResult(r) ==
    /\ reqs[r].pc = "text"
    /\ htmlContent' = reqs[r].response.html
    /\ reqs' = [reqs EXCEPT ![r] = Returned(r)]
    /\ Finally
    /\ UNCHANGED <<routeVars, camVars, tipVars, error, result, currentTipIndex, abortedBy, nreq,
                   skipped, saveVars, storeVars, now, retryPresses>>

\* await response.text() resolves: the HTML branch, which returns.  A body
\* that was buffered with the response is read whether or not the signal
\* has been aborted since
TextResolve(r) ==
    /\ reqs[r].pc = "text"
    /\ htmlContent' = reqs[r].response.html
    /\ result' = NullEntry
    /\ currentResult' = NullEntry
    /\ reqs' = [reqs EXCEPT ![r] = Returned(r)]
    /\ Finally
    /\ UNCHANGED <<routeVars, camVars, tipVars, error, currentTipIndex, abortedBy, nreq, skipped,
                   saveVars, history, nextId, normalizeCalls, now,
                   retryPresses>>

\* await response.text() rejects: the body cannot be read, or the body
\* stream observes the signal and rejects with an AbortError once it is
\* aborted
TextReject(r) ==
    /\ reqs[r].pc = "text"
    /\ \E errName \in {"TypeError"} \cup
            (IF Aborted(reqs[r].signal) THEN {"AbortError"} ELSE {}) :
          Catch(r, errName)
    /\ UNCHANGED <<routeVars, camVars, tipVars, result, htmlContent, currentTipIndex, abortedBy,
                   nreq, skipped, saveVars, storeVars, now, retryPresses>>

\* the entry saved as soon as it is built
JsonResolve_AutoSave(r) ==
    /\ reqs[r].pc = "json"
    /\ LET normalized == normalizeNutritionData(reqs[r].response.data)
           entry == BuildEntry(normalized, reqs[r].imageUri, reqs[r])
       IN  /\ result' = entry
           /\ currentResult' = entry
           /\ history' = saveHistory(history, entry)
    /\ nextId' = nextId + 1
    /\ normalizeCalls' = normalizeCalls + 1
    /\ reqs' = [reqs EXCEPT ![r] = Returned(r)]
    /\ Finally
    /\ UNCHANGED <<routeVars, camVars, tipVars, error, htmlContent, currentTipIndex, abortedBy,
                   nreq, skipped, saveVars, now, retryPresses>>

\* await response.json() resolves: normalize, build the entry, publish it.
\* A body that was buffered with the response is read whether or not the
\* signal has been aborted since; nothing here reads signal.aborted
JsonResolve(r) ==
    /\ reqs[r].pc = "json"
    /\ LET normalized == normalizeNutritionData(reqs[r].response.data)
           entry == BuildEntry(normalized, reqs[r].imageUri, reqs[r])
       IN  /\ result' = entry
           /\ currentResult' = entry
    /\ nextId' = nextId + 1
    /\ normalizeCalls' = normalizeCalls + 1
    /\ reqs' = [reqs EXCEPT ![r] = Returned(r)]
    /\ Finally
    /\ UNCHANGED <<routeVars, camVars, tipVars, error, htmlContent, currentTipIndex, abortedBy,
                   nreq, skipped, saveVars, history, now, retryPresses>>

\* await response.json() rejects: the body is not JSON, or the body stream
\* observes the signal and rejects with an AbortError once it is aborted
JsonReject(r) ==
    /\ reqs[r].pc = "json"
    /\ \E errName \in {"SyntaxError"} \cup
            (IF Aborted(reqs[r].signal) THEN {"AbortError"} ELSE {}) :
          Catch(r, errName)
    /\ UNCHANGED <<routeVars, camVars, tipVars, result, htmlContent, currentTipIndex, abortedBy,
                   nreq, skipped, saveVars, storeVars, now, retryPresses>>

\* -------------------------------------------------------------- handleSave
analysisVars == <<isLoading, error, result, htmlContent, currentTipIndex,
                  abortControllerRef, abortedBy, reqs, nreq, skipped>>

\* the argument handleSave passes to saveHistory: the result of its render
SaveArgument(closureResult) == closureResult

\* a press of Save: handleSave up to its first await
SavePress ==
    /\ SaveShown
    /\ ~isSaving
    /\ CanSave
    /\ nsave < MaxSave
    /\ nsave' = nsave + 1
    /\ IF os # "web"
       THEN /\ saves' = [saves EXCEPT ![nsave + 1] =
                    [NoSave EXCEPT !.pc = "haptic", !.entry = result]]
            /\ UNCHANGED isSaving
       ELSE /\ saves' = [saves EXCEPT ![nsave + 1] =
                    [NoSave EXCEPT !.pc = "saving",
                                   !.entry = SaveArgument(result)]]
            /\ isSaving' = TRUE
    /\ UNCHANGED <<routeVars, camVars, tipVars, analysisVars, storeVars, now, lastAlert,
                   retryPresses>>

\* native: await Haptics.notificationAsync(...) resolves; saveHistory is called
HapticResolve(s) ==
    /\ saves[s].pc = "haptic"
    /\ saves' = [saves EXCEPT ![s].pc = "saving",
                              ![s].entry = SaveArgument(@)]
    /\ isSaving' = TRUE
    /\ UNCHANGED <<routeVars, camVars, tipVars, analysisVars, storeVars, now, lastAlert, nsave,
                   retryPresses>>

\* native: await Haptics.notificationAsync(...) rejects; handleSave ends
HapticReject(s) ==
    /\ saves[s].pc = "haptic"
    /\ saves' = [saves EXCEPT ![s] = DoneSave]
    /\ UNCHANGED <<routeVars, camVars, tipVars, analysisVars, storeVars, now, lastAlert, nsave,
                   isSaving, retryPresses>>

\* await saveHistory(result) resolves
SaveResolve(s) ==
    /\ saves[s].pc = "saving"
    /\ history' = saveHistory(history, saves[s].entry)
    /\ lastAlert' = "Saved to history!"
    /\ isSaving' = FALSE
    /\ saves' = [saves EXCEPT ![s] = DoneSave]
    /\ UNCHANGED <<routeVars, camVars, tipVars, analysisVars, currentResult, nextId,
                   normalizeCalls, now, nsave, retryPresses>>

\* handleSave without its finally block
SaveReject_NoFinally(s) ==
    /\ saves[s].pc = "saving"
    /\ lastAlert' = "Failed to save. Please try again."
    /\ saves' = [saves EXCEPT ![s] = DoneSave]
    /\ UNCHANGED <<routeVars, camVars, tipVars, analysisVars, storeVars, now, nsave, isSaving,
                   retryPresses>>

\* await saveHistory(result) rejects
SaveReject(s) ==
    /\ saves[s].pc = "saving"
    /\ lastAlert' = "Failed to save. Please try again."
    /\ isSaving' = FALSE
    /\ saves' = [saves EXCEPT ![s] = DoneSave]
    /\ UNCHANGED <<routeVars, camVars, tipVars, analysisVars, storeVars, now, nsave,
                   retryPresses>>

\* handleShare: an alert with the nutrition summary of the result
SharePress ==
    /\ View = "content"
    /\ result # NullEntry
    /\ lastAlert' = "Share"
    /\ UNCHANGED <<routeVars, camVars, tipVars, analysisVars, storeVars, now, saves, nsave,
                   isSaving, retryPresses>>

\* ------------------------------------------------------------------- Next

\* the steps of analyzeImage after its first await, and its timer
AnalysisStep ==
    \/ \E r \in ReqIds : TimerFire(r)
    \/ \E r \in ReqIds : FetchImageResolve(r)
    \/ \E r \in ReqIds : FetchImageReject(r)
    \/ \E r \in ReqIds : BlobResolve(r)
    \/ \E r \in ReqIds : BlobReject(r)
    \/ \E r \in ReqIds, resp \in Responses : PostResolve(r, resp)
    \/ \E r \in ReqIds : PostReject(r)
    \/ \E r \in ReqIds : TextResolve(r)
    \/ \E r \in ReqIds : TextReject(r)
    \/ \E r \in ReqIds : JsonResolve(r)
    \/ \E r \in ReqIds : JsonReject(r)

\* the screen with the route parameters it was opened with
Next ==
    \/ Mount
    \/ Unmount
    \/ RetryPress
    \/ Tick
    \/ AnalysisStep
    \/ SavePress
    \/ \E s \in SaveIds : HapticResolve(s)
    \/ \E s \in SaveIds : HapticReject(s)
    \/ \E s \in SaveIds : SaveResolve(s)
    \/ \E s \in SaveIds : SaveReject(s)
    \/ SharePress

Spec == Init /\ [][Next]_vars

\* the analysis on a screen whose route parameters may change while it is
\* mounted
NextNav ==
    \/ Mount
    \/ \E p \in ParamSpace : ParamChange(p)
    \/ Unmount
    \/ RetryPress
    \/ Tick
    \/ AnalysisStep

SpecNav == Init /\ [][NextNav]_vars

\* ------------------------------------------------------------ tip rotation

\* the rotation effect, keyed on isLoading, runs after the render that saw
\* isLoading change: its cleanup clears the interval, its body installs one
\* when isLoading is true
TipEffect ==
    /\ phase = "mounted"
    /\ tipInterval # isLoading
    /\ tipInterval' = isLoading
    /\ UNCHANGED <<routeVars, camVars, analysisVars, saveVars, storeVars, now,
                   retryPresses, fadeAnim>>

\* an interval callback that counts on without wrapping round
TipTick_NoWrap ==
    /\ tipInterval
    /\ fadeAnim' = "running"
    /\ currentTipIndex' = currentTipIndex + 1
    /\ UNCHANGED <<routeVars, camVars, isLoading, error, result, htmlContent,
                   abortControllerRef, abortedBy, reqs, nreq, skipped,
                   saveVars, storeVars, now, retryPresses, tipInterval>>

\* the interval callback: the fade sequence is started and the tip index
\* moves on
TipTick ==
    /\ tipInterval
    /\ fadeAnim' = "running"
    /\ currentTipIndex' = (currentTipIndex + 1) % HEALTH_TIPS_LENGTH
    /\ UNCHANGED <<routeVars, camVars, isLoading, error, result, htmlContent,
                   abortControllerRef, abortedBy, reqs, nreq, skipped,
                   saveVars, storeVars, now, retryPresses, tipInterval>>

\* the fade sequence has run to its end
FadeEnd ==
    /\ fadeAnim = "running"
    /\ fadeAnim' = "rest"
    /\ UNCHANGED <<routeVars, camVars, analysisVars, saveVars, storeVars, now,
                   retryPresses, tipInterval>>

\* the analysis with the tip rotation of its loading view
NextTips ==
    \/ Mount
    \/ Unmount
    \/ RetryPress
    \/ Tick
    \/ AnalysisStep
    \/ TipEffect
    \/ TipTick
    \/ FadeEnd

SpecTips == Init /\ [][NextTips]_vars

\* ------------------------------------------------------------ camera screen
resultVars == <<phase, params, navs, analysisVars, saveVars, storeVars, now,
                retryPresses, tipVars>>

\* what the camera screen renders
CameraView ==
    IF cameraPhase = "unmounted" THEN "none"
    ELSE IF permission = "null" THEN "empty"
    ELSE IF permission # "granted" THEN "permission"
    ELSE IF capturedImage # NoImage THEN "review"
    ELSE "camera"

\* cameraRef.current is the CameraView element while it is rendered
cameraRef == CameraView = "camera"

\* the image library is presented over the screen
PickerOpen == \E k \in PickIds : picks[k] = "picking"

\* the controls of view v can be pressed
Pressable(v) == CameraView = v /\ ~PickerOpen

\* useCameraPermissions() delivers the stored permission
PermissionLoaded(granted) ==
    /\ permission = "null"
    /\ permission' = IF granted THEN "granted" ELSE "denied"
    /\ UNCHANGED <<os, resultVars, cameraPhase, facing, flash, capturedImage,
                   isProcessing, captures, ncapture, picks, npick, router,
                   cameraAlerts>>

\* Grant Permission: requestPermission() and the user's answer
RequestPermission(granted) ==
    /\ Pressable("permission")
    /\ permission' = IF granted THEN "granted" ELSE "denied"
    /\ UNCHANGED <<os, resultVars, cameraPhase, facing, flash, capturedImage,
                   isProcessing, captures, ncapture, picks, npick, router,
                   cameraAlerts>>

toggleCameraFacing ==
    /\ Pressable("camera")
    /\ facing' = IF facing = "back" THEN "front" ELSE "back"
    /\ UNCHANGED <<os, resultVars, cameraPhase, permission, flash,
                   capturedImage, isProcessing, captures, ncapture, picks,
                   npick, router, cameraAlerts>>

toggleFlash ==
    /\ Pressable("camera")
    /\ flash' = ~flash
    /\ UNCHANGED <<os, resultVars, cameraPhase, permission, facing,
                   capturedImage, isProcessing, captures, ncapture, picks,
                   npick, router, cameraAlerts>>

\* the guard of takePicture
CanTakePicture == cameraRef /\ ~isProcessing

\* a press of the shutter, which is disabled while isProcessing: takePicture
\* up to its first await
takePicture ==
    /\ Pressable("camera")
    /\ ~isProcessing
    /\ CanTakePicture
    /\ ncapture < MaxCapture
    /\ ncapture' = ncapture + 1
    /\ IF os # "web"
       THEN /\ captures' = [captures EXCEPT ![ncapture + 1] = "haptic"]
            /\ UNCHANGED isProcessing
       ELSE /\ captures' = [captures EXCEPT ![ncapture + 1] = "capturing"]
            /\ isProcessing' = TRUE
    /\ UNCHANGED <<os, resultVars, cameraPhase, permission, facing, flash,
                   capturedImage, picks, npick, router, cameraAlerts>>

\* takePictureAsync called before the try: a throw of the call is not caught
\* and the finally block does not run
ImpactResolve_BeforeTry(c) ==
    /\ captures[c] = "haptic"
    /\ isProcessing' = TRUE
    /\ captures' = [captures EXCEPT ![c] = IF cameraRef THEN "capturing"
                                           ELSE "done"]
    /\ UNCHANGED <<os, resultVars, cameraPhase, permission, facing, flash,
                   capturedImage, ncapture, picks, npick, router,
                   cameraAlerts>>

\* native: await Haptics.impactAsync(...) resolves: setIsProcessing(true) and
\* cameraRef.current.takePictureAsync(...), which throws inside the try when
\* the camera element is no longer rendered
ImpactResolve(c) ==
    /\ captures[c] = "haptic"
    /\ IF cameraRef
       THEN /\ captures' = [captures EXCEPT ![c] = "capturing"]
            /\ isProcessing' = TRUE
            /\ UNCHANGED cameraAlerts
       ELSE /\ captures' = [captures EXCEPT ![c] = "failed"]
            /\ cameraAlerts' = cameraAlerts + 1
            /\ isProcessing' = FALSE
    /\ UNCHANGED <<os, resultVars, cameraPhase, permission, facing, flash,
                   capturedImage, ncapture, picks, npick, router>>

\* native: await Haptics.impactAsync(...) rejects, outside the try
ImpactReject(c) ==
    /\ captures[c] = "haptic"
    /\ captures' = [captures EXCEPT ![c] = "done"]
    /\ UNCHANGED <<os, resultVars, cameraPhase, permission, facing, flash,
                   capturedImage, isProcessing, ncapture, picks, npick,
                   router, cameraAlerts>>

\* a capture that goes on to the result screen as soon as it has a photo
CaptureResolve_AutoConfirm(c, photo) ==
    /\ captures[c] = "capturing"
    /\ capturedImage' = IF photo # NoPhoto THEN photo ELSE capturedImage
    /\ isProcessing' = FALSE
    /\ captures' = [captures EXCEPT ![c] = IF photo # NoPhoto THEN "photo"
                                           ELSE "empty"]
    /\ IF photo # NoPhoto
       THEN /\ router' = Replace(photo)
            /\ cameraPhase' = "unmounted"
       ELSE UNCHANGED <<router, cameraPhase>>
    /\ UNCHANGED <<os, resultVars, permission, facing, flash, ncapture, picks,
                   npick, cameraAlerts>>

\* await takePictureAsync(...) resolves with a photo or with undefined
CaptureResolve(c, photo) ==
    /\ captures[c] = "capturing"
    /\ capturedImage' = IF photo # NoPhoto THEN photo ELSE capturedImage
    /\ isProcessing' = FALSE
    /\ captures' = [captures EXCEPT ![c] = IF photo # NoPhoto THEN "photo"
                                           ELSE "empty"]
    /\ UNCHANGED <<os, resultVars, cameraPhase, permission, facing, flash,
                   ncapture, picks, npick, router, cameraAlerts>>

\* a catch block that also drops the image the screen holds
CaptureReject_ClearImage(c) ==
    /\ captures[c] = "capturing"
    /\ cameraAlerts' = cameraAlerts + 1
    /\ isProcessing' = FALSE
    /\ capturedImage' = NoImage
    /\ captures' = [captures EXCEPT ![c] = "failed"]
    /\ UNCHANGED <<os, resultVars, cameraPhase, permission, facing, flash,
                   ncapture, picks, npick, router>>

\* await takePictureAsync(...) rejects
CaptureReject(c) ==
    /\ captures[c] = "capturing"
    /\ cameraAlerts' = cameraAlerts + 1
    /\ isProcessing' = FALSE
    /\ captures' = [captures EXCEPT ![c] = "failed"]
    /\ UNCHANGED <<os, resultVars, cameraPhase, permission, facing, flash,
                   capturedImage, ncapture, picks, npick, router>>

\* a press of the gallery button: pickImage up to its await
pickImage ==
    /\ Pressable("camera")
    /\ npick < MaxPick
    /\ npick' = npick + 1
    /\ picks' = [picks EXCEPT ![npick + 1] = "launching"]
    /\ UNCHANGED <<os, resultVars, cameraPhase, permission, facing, flash,
                   capturedImage, isProcessing, captures, ncapture, router,
                   cameraAlerts>>

\* the image library comes up over the screen
PickerPresented(k) ==
    /\ picks[k] = "launching"
    /\ ~PickerOpen
    /\ picks' = [picks EXCEPT ![k] = "picking"]
    /\ UNCHANGED <<os, resultVars, cameraPhase, permission, facing, flash,
                   capturedImage, isProcessing, captures, ncapture, npick,
                   router, cameraAlerts>>

\* await launchImageLibraryAsync(...) resolves: canceled, with no asset in
\* result.assets, or with an asset
PickResolve(k, asset) ==
    /\ picks[k] = "picking"
    /\ capturedImage' = IF asset \notin {Canceled, NoAsset} THEN asset
                        ELSE capturedImage
    /\ picks' = [picks EXCEPT ![k] = IF asset \in {Canceled, NoAsset}
                                     THEN asset ELSE "asset"]
    /\ UNCHANGED <<os, resultVars, cameraPhase, permission, facing, flash,
                   isProcessing, captures, ncapture, npick, router,
                   cameraAlerts>>

\* await launchImageLibraryAsync(...) rejects; nothing catches it
PickReject(k) ==
    /\ picks[k] \in {"launching", "picking"}
    /\ picks' = [picks EXCEPT ![k] = "failed"]
    /\ UNCHANGED <<os, resultVars, cameraPhase, permission, facing, flash,
                   capturedImage, isProcessing, captures, ncapture, npick,
                   router, cameraAlerts>>

\* Use Photo: router.replace to the result screen, which takes this
\* screen's place
confirmImage ==
    /\ Pressable("review")
    /\ IF capturedImage # NoImage
       THEN /\ router' = Replace(capturedImage)
            /\ cameraPhase' = "unmounted"
       ELSE UNCHANGED <<router, cameraPhase>>
    /\ UNCHANGED <<os, resultVars, permission, facing, flash, capturedImage,
                   isProcessing, captures, ncapture, picks, npick,
                   cameraAlerts>>

\* Retake
retakePhoto ==
    /\ Pressable("review")
    /\ capturedImage' = NoImage
    /\ UNCHANGED <<os, resultVars, cameraPhase, permission, facing, flash,
                   isProcessing, captures, ncapture, picks, npick, router,
                   cameraAlerts>>

\* the X of the camera and review views and Cancel of the permission view:
\* router.back()
CloseCamera ==
    /\ \E v \in {"permission", "review", "camera"} : Pressable(v)
    /\ router' = Back
    /\ cameraPhase' = "unmounted"
    /\ UNCHANGED <<os, resultVars, permission, facing, flash, capturedImage,
                   isProcessing, captures, ncapture, picks, npick,
                   cameraAlerts>>

\* the camera screen, opened from the home screen
InitCamera ==
    /\ Init
    /\ params = [id |-> 0, imageUri |-> "", notes |-> ""]

NextCamera ==
    \/ \E granted \in BOOLEAN : PermissionLoaded(granted)
    \/ \E granted \in BOOLEAN : RequestPermission(granted)
    \/ toggleCameraFacing
    \/ toggleFlash
    \/ takePicture
    \/ \E c \in CaptureIds : ImpactResolve(c)
    \/ \E c \in CaptureIds : ImpactReject(c)
    \/ \E c \in CaptureIds, photo \in PhotoUris \cup {NoPhoto} :
            CaptureResolve(c, photo)
    \/ \E c \in CaptureIds : CaptureReject(c)
    \/ pickImage
    \/ \E k \in PickIds : PickerPresented(k)
    \/ \E k \in PickIds, asset \in AssetUris \cup {Canceled, NoAsset} :
            PickResolve(k, asset)
    \/ \E k \in PickIds : PickReject(k)
    \/ confirmImage
    \/ retakePhoto
    \/ CloseCamera

SpecCamera == InitCamera /\ [][NextCamera]_vars

\* ------------------------------------------------------------- properties

\* request r returns in this step
Ends(r) == reqs[r].pc \notin {"idle", "done"} /\ reqs'[r].pc = "done"

\* saveHistory is called for save s in this step
CallsSaveHistory(s) == saves[s].pc # "saving" /\ saves'[s].pc = "saving"

\* C1: at most one analysis is outstanding at any time, so every
\* normalization belongs to a request of its own that has returned; a call
\* of analyzeImage made while a request is pending starts nothing and
\* changes no state of the screen or of the store.
C1_SingleRequest ==
    /\ [](/\ Cardinality(InFlight) <= 1
          /\ normalizeCalls + Cardinality(InFlight) <= nreq)
    /\ [][skipped' # skipped =>
            /\ InFlight # {}
            /\ UNCHANGED <<isLoading, htmlContent, currentTipIndex,
                           abortControllerRef, abortedBy, reqs, nreq, result,
                           saveVars, storeVars, now>>
            /\ (retryPresses' = retryPresses => error' = error)]_vars

C1_Witness == skipped > 0 /\ InFlight # {}

\* C2: once the 60-second timer of a pending request has fired, its
\* controller is aborted; a POST that is in flight then, or is sent
\* afterwards, is never answered: the request can only return, and it
\* returns with the loading state ended, the timeout message in the error
\* state and, on a mounted screen, the Retry button.
C2_TimeoutSurfaced ==
    /\ [](\A r \in InFlight : reqs[r].timer = "fired" => Aborted(r))
    /\ [][\A r \in ReqIds :
            (reqs[r].timer = "fired" /\ reqs[r].pc = "post"
             /\ reqs'[r] # reqs[r]) =>
                /\ Ends(r)
                /\ Aborted(reqs[r].signal)
                /\ ~isLoading'
                /\ abortControllerRef' = NoController
                /\ error' = TimeoutMsg
                /\ (phase = "mounted" => RetryShown')]_vars

C2_Witness ==
    /\ \E c \in ReqIds : abortedBy[c] = "deadline"
    /\ now >= TIMEOUT_MS
    /\ error = TimeoutMsg
    /\ ~isLoading
    /\ RetryShown

\* C3: once the abort signal of a request has fired, the request runs no
\* normalization and publishes no entry to the screen or to the store.
C3_NothingCommittedAfterAbort ==
    [][\A r \in ReqIds :
          (abortedBy[r] # "none" /\ Ends(r)) =>
              /\ normalizeCalls' = normalizeCalls
              /\ (result' # result => result' = NullEntry)
              /\ (currentResult' # currentResult =>
                      currentResult' = NullEntry)]_vars

\* C4: the message is chosen by cause: the timeout message only for a
\* request whose 60-second timer fired, and always for a POST cancelled by
\* that timer; the generic message for a failed image read, a transport
\* failure and a non-OK status.
C4_MessageByCause ==
    [][\A r \in ReqIds :
          Ends(r) =>
              /\ (error' = TimeoutMsg => reqs[r].timer = "fired")
              /\ (/\ reqs[r].pc = "post"
                  /\ Aborted(reqs[r].signal)
                  /\ abortedBy[reqs[r].signal] = "deadline"
                  => error' = TimeoutMsg)
              /\ (reqs[r].pc = "post" /\ ~Aborted(reqs[r].signal)
                  => error' = FailureMsg)]_vars

\* C5: saveHistory is called only by a handleSave started by a Save press
\* on a displayed, non-null result, with exactly that entry; no step of an
\* analysis calls it, and the history changes only when such a call
\* succeeds.
C5_SaveOnlyOnPress ==
    [][/\ \A s \in SaveIds :
            /\ (saves[s].pc = "idle" /\ saves'[s].pc # "idle" =>
                    /\ SaveShown
                    /\ saves'[s].entry = result
                    /\ result # NullEntry)
            /\ (CallsSaveHistory(s) =>
                    /\ saves'[s].entry # NullEntry
                    /\ (saves[s].pc = "haptic" =>
                            saves'[s].entry = saves[s].entry)
                    /\ reqs' = reqs)
       /\ (history' # history =>
               /\ reqs' = reqs
               /\ \E s \in SaveIds :
                     /\ saves[s].pc = "saving"
                     /\ saves'[s].pc = "done"
                     /\ history' = Append(history, saves[s].entry))]_vars

C5_Witness ==
    \E s \in SaveIds : saves[s].pc = "saving" /\ saves[s].entry = result

\* C6: normalizeNutritionData runs once in the step in which a request
\* returns from an OK, non-HTML response whose JSON body was read, and in
\* no other step.
C6_NormalizeOncePerJson ==
    [][/\ (normalizeCalls' # normalizeCalls =>
              /\ normalizeCalls' = normalizeCalls + 1
              /\ \E r \in ReqIds :
                    /\ Ends(r)
                    /\ reqs[r].pc = "json"
                    /\ reqs[r].response.ok
                    /\ reqs[r].response.contentType \in {"", "application/json"}
                    /\ error' = NoError)
       /\ \A r \in ReqIds :
              (Ends(r) /\ reqs[r].pc = "json" /\ error' = error) =>
                  normalizeCalls' = normalizeCalls + 1]_vars

C6_Witness == normalizeCalls > 0 /\ InFlight = {}

\* C7: when the body of an HTML answer has been read, it becomes
\* htmlContent as it is, no entry is created, the result of the screen and
\* of the store are null, and the request returns with loading off and no
\* error.
C7_HtmlPassedThrough ==
    [][\A r \in ReqIds :
          (Ends(r) /\ reqs[r].pc = "text" /\ error' = error) =>
              /\ htmlContent' = reqs[r].response.html
              /\ htmlContent' \in Htmls
              /\ result' = NullEntry
              /\ currentResult' = NullEntry
              /\ nextId' = nextId
              /\ normalizeCalls' = normalizeCalls
              /\ ~isLoading'
              /\ error' = NoError]_vars

C7_Witness ==
    /\ htmlContent \in Htmls
    /\ ~isLoading
    /\ error = NoError
    /\ result = NullEntry

\* C8: when saveHistory rejects, the failure alert is shown, the displayed
\* result is still the entry that was submitted, and isSaving is false, so
\* the guard of handleSave lets the next press through.
C8_SaveFailureRetryable ==
    [][\A s \in SaveIds :
          (saves[s].pc = "saving" /\ saves'[s].pc = "done"
           /\ history' = history) =>
              /\ lastAlert' = "Failed to save. Please try again."
              /\ result' = result
              /\ result' = saves[s].entry
              /\ ~isSaving'
              /\ CanSave']_vars

C8_Witness ==
    /\ lastAlert = "Failed to save. Please try again."
    /\ result # NullEntry
    /\ ~isSaving
    /\ \E s \in SaveIds : saves[s].pc = "done"

\* C9: with the route parameters the screen was opened with, an analysis
\* starts only in the first run of the effect (imageUri present, no id) or
\* in a press of Retry on the error view, so the analyses started never
\* exceed one plus the presses of Retry.
C9_ManualRetryOnly ==
    /\ [](nreq <= 1 + retryPresses)
    /\ [][nreq' # nreq =>
            /\ nreq' = nreq + 1
            /\ \/ /\ phase = "init"
                  /\ phase' = "mounted"
                  /\ params.id = 0
                  /\ params.imageUri # ""
               \/ /\ RetryShown
                  /\ retryPresses' = retryPresses + 1]_vars

C9_Witness == nreq = 2 /\ retryPresses = 1 /\ InFlight # {}

\* C10: the entry published by a successful analysis holds the normalized
\* record of the response, the image URI and the notes that request was
\* called and sent with, the time of the step and an id not used before,
\* and the same entry goes to the screen and to the store.
C10_EntryOfRequest ==
    [][\A r \in ReqIds :
          (Ends(r) /\ reqs[r].pc = "json" /\ error' = error) =>
              /\ result' = currentResult'
              /\ result'.calories_kcal =
                     normalizeNutritionData(reqs[r].response.data).calories_kcal
              /\ result'.servings =
                     normalizeNutritionData(reqs[r].response.data).servings
              /\ result'.calories_kcal >= 0
              /\ result'.servings >= 1
              /\ result'.imageThumb = reqs[r].imageUri
              /\ result'.imageThumb = reqs[r].formImage
              /\ result'.notes = reqs[r].formNotes
              /\ result'.timestamp = now
              /\ result'.id # 0
              /\ result'.id # result.id
              /\ \A i \in 1..Len(history) : history[i].id # result'.id
              /\ nextId' > result'.id]_vars

C10_Witness ==
    /\ result # NullEntry
    /\ result = currentResult
    /\ result.imageThumb \in Uris
    /\ result.imageThumb # params.imageUri

\* the saveHistory calls that have been made and have not settled
OutstandingSaves == {s \in SaveIds : saves[s].pc = "saving"}

\* C11: at most one saveHistory call is outstanding at any time: a Save
\* press made while an earlier handleSave has not finished, also while it
\* awaits the haptic feedback, starts no second saveHistory call.
C11_SingleSaveCall == Cardinality(OutstandingSaves) <= 1

\* --------------------------------------------------------------- liveness

\* a fetch whose signal is aborted rejects
AbortDelivered(r) == Aborted(reqs[r].signal) /\ PostReject(r)

\* what the runtime guarantees: time passes, a timer that is due runs its
\* callback, an aborted fetch rejects.  Nothing obliges the image read, the
\* webhook or the body of its response to ever answer
Fairness ==
    /\ WF_vars(Tick)
    /\ \A r \in ReqIds : WF_vars(TimerFire(r))
    /\ \A r \in ReqIds : WF_vars(AbortDelivered(r))

SpecLive == Init /\ [][Next]_vars /\ Fairness

\* C12: every analysis that is started eventually leaves the loading state,
\* with isLoading false and abortControllerRef null, whichever phase stalls,
\* provided that a timer that is due fires.
C12_LoadingEnds ==
    isLoading ~> (~isLoading /\ abortControllerRef = NoController)

\* a POST that is pending does not stay pending
PostEnds == \A r \in ReqIds : (reqs[r].pc = "post") ~> (reqs[r].pc # "post")

\* C13: a press of Retry on the error screen with imageUri present always
\* starts a new request: when no request is in flight, and after every
\* return of a request, abortControllerRef is null and isLoading is false,
\* so the guard of analyzeImage lets the retry through, and the retry
\* clears the error, enters the loading state and sends params.imageUri.
C13_RetryStarts ==
    /\ [](InFlight = {} => (abortControllerRef = NoController /\ ~isLoading))
    /\ [][\A r \in ReqIds : Ends(r) =>
            (abortControllerRef' = NoController /\ isLoading' = FALSE)]_vars
    /\ [][(retryPresses' # retryPresses /\ params.imageUri # "") =>
            /\ error # NoError
            /\ InFlight = {}
            /\ skipped' = skipped
            /\ nreq' = nreq + 1
            /\ InFlight' = {nreq'}
            /\ reqs'[nreq'].imageUri = params.imageUri
            /\ abortControllerRef' = nreq'
            /\ isLoading'
            /\ error' = NoError]_vars

C13_Witness ==
    /\ retryPresses > 0
    /\ nreq = 2
    /\ reqs[1].pc = "done"
    /\ InFlight = {2}
    /\ error = NoError
    /\ isLoading

\* C14: the 60-second timer armed for one request never aborts a later
\* request: a timer is armed only while its own request is in flight and
\* its controller is the one in the ref, every return leaves the timer
\* cleared or fired, and the callback of a timer aborts no controller but
\* that of the request that armed it.
C14_TimerAbortsOwnRequest ==
    /\ [](\A r \in ReqIds : reqs[r].timer = "armed" =>
            (r \in InFlight /\ abortControllerRef = r))
    /\ [][\A r \in ReqIds : Ends(r) => reqs'[r].timer # "armed"]_vars
    /\ [][\A r \in ReqIds :
            (reqs[r].timer = "armed" /\ reqs'[r].timer = "fired") =>
                \A c \in ReqIds \ {r} : abortedBy'[c] = abortedBy[c]]_vars

C14_Witness ==
    /\ reqs[1].pc = "done"
    /\ reqs[1].timer # "armed"
    /\ abortedBy[1] = "none"
    /\ reqs[2].timer = "fired"
    /\ abortedBy[2] = "deadline"

\* the ids of the entries in the history
HistoryIds == {history[i].id : i \in 1..Len(history)}

\* C15: no HistoryEntry id is submitted to saveHistory again after a
\* saveHistory call for it has succeeded: every saveHistory call is made
\* with an entry whose id is not in the history.
C15_NoResubmission ==
    [][\A s \in SaveIds :
          CallsSaveHistory(s) => saves'[s].entry.id \notin HistoryIds]_vars

\* C16: when the screen is opened with an id parameter, with or without an
\* imageUri parameter, no analysis request is ever sent, the result is the
\* history entry with that id, or stays null when none matches, and Save is
\* never offered, so nothing is saved.
C16_HistoryViewOnly ==
    isFromHistory =>
        /\ nreq = 0
        /\ skipped = 0
        /\ InFlight = {}
        /\ ~isLoading
        /\ result = (IF phase = "init" THEN NullEntry
                     ELSE FindEntry(history, params.id))
        /\ (params.id = OldEntry.id /\ phase # "init" => result = OldEntry)
        /\ (params.id \notin HistoryIds => result = NullEntry)
        /\ ~SaveShown
        /\ nsave = 0
        /\ history = <<OldEntry>>

C16_Witness ==
    /\ phase = "mounted"
    /\ params.id = OldEntry.id
    /\ params.imageUri # ""
    /\ result = OldEntry
    /\ View = "content"
    /\ now > 0

\* C17: with fixed route parameters the result and the HTML preview are
\* never both non-null: a step that sets one of them leaves or makes the
\* other null, across every sequence of analyses and retries.
C17_OneKindOfContent ==
    /\ [](result = NullEntry \/ htmlContent = NoHtml)
    /\ [][(htmlContent' # htmlContent /\ htmlContent' # NoHtml) =>
            result' = NullEntry]_vars
    /\ [][(result' # result /\ result' # NullEntry) =>
            htmlContent' = NoHtml]_vars

C17_Witness ==
    /\ htmlContent \in Htmls
    /\ result = NullEntry
    /\ nreq = 2
    /\ InFlight = {}

\* a step of an invocation of takePicture or of pickImage
CaptureOrPickStep == captures' # captures \/ picks' # picks

\* C18: the camera screen navigates to the result screen only through
\* confirmImage while capturedImage is non-null, and passes the current
\* capturedImage as imageUri; a step of a capture or of a pick never
\* navigates, and without a captured image there is no navigation to the
\* result screen.
C18_NavigateOnConfirm ==
    /\ [][router' # router =>
            \/ /\ router' = Replace(capturedImage)
               /\ capturedImage # NoImage
               /\ CameraView = "review"
               /\ UNCHANGED <<capturedImage, captures, picks>>
            \/ router' = Back]_vars
    /\ [][CaptureOrPickStep => UNCHANGED <<router, cameraPhase>>]_vars

C18_Witness ==
    /\ router.op = "replace"
    /\ router.imageUri \in AssetUris
    /\ ncapture > 0

\* the takePictureAsync calls that have been made and have not settled
CapturesInProgress == {c \in CaptureIds : captures[c] = "capturing"}

\* C19: at most one takePictureAsync call is in progress at any time: a
\* shutter press made while an earlier takePicture has not finished, also
\* while it awaits the haptic feedback, starts no second capture.
C19_SingleCapture == Cardinality(CapturesInProgress) <= 1

\* C20: once an image is held for review, capturedImage changes only by
\* Retake, which sets it to null: a capture or a pick that was started
\* earlier and completes later does not replace the image under review.
C20_ReviewImageStable ==
    [][(capturedImage # NoImage /\ capturedImage' # capturedImage) =>
            /\ capturedImage' = NoImage
            /\ UNCHANGED <<captures, picks>>]_vars

\* the catch block of invocation c of takePicture runs in this step
CaptureFails(c) ==
    captures[c] \in {"haptic", "capturing"} /\ captures'[c] = "failed"

\* takePictureAsync of invocation c resolves without a photo in this step
CaptureEmpty(c) == captures[c] = "capturing" /\ captures'[c] = "empty"

\* invocation k of pickImage returns without an asset in this step
PickYieldsNothing(k) ==
    /\ picks[k] \in {"launching", "picking"}
    /\ picks'[k] \in {Canceled, NoAsset, "failed"}

\* C21: a capture that throws or yields no photo, and a gallery pick that
\* is cancelled, fails or yields no asset, leave capturedImage unchanged; a
\* failed capture also raises the error alert, once, and does not navigate,
\* and the error alert is raised by nothing else.
C21_FailureKeepsImage ==
    /\ [][\A c \in CaptureIds : (CaptureFails(c) \/ CaptureEmpty(c)) =>
            UNCHANGED <<capturedImage, router, cameraPhase>>]_vars
    /\ [][\A c \in CaptureIds : CaptureFails(c) =>
            cameraAlerts' = cameraAlerts + 1]_vars
    /\ [][\A k \in PickIds : PickYieldsNothing(k) =>
            UNCHANGED <<capturedImage, router, cameraPhase, cameraAlerts>>]_vars
    /\ [][cameraAlerts' # cameraAlerts =>
            \E c \in CaptureIds : CaptureFails(c)]_vars

C21_Witness ==
    /\ capturedImage \in AssetUris
    /\ cameraAlerts = 1
    /\ \E c \in CaptureIds : captures[c] = "failed"
    /\ \E c \in CaptureIds : captures[c] = "empty"
    /\ \E k \in PickIds : picks[k] = Canceled
    /\ router = NoNavigation

\* invocation c of takePicture, having reached the try, returns in this step
CaptureAttemptEnds(c) ==
    /\ captures[c] \in {"haptic", "capturing"}
    /\ captures'[c] \in {"photo", "empty", "failed"}

\* C22: isProcessing is true only while a takePictureAsync call is in
\* progress, and every capture attempt, successful or failed, ends with
\* isProcessing false: the shutter is not disabled when no capture is
\* running.
C22_ProcessingOnlyWhileCapturing ==
    /\ [](isProcessing => CapturesInProgress # {})
    /\ [][\A c \in CaptureIds : CaptureAttemptEnds(c) =>
            isProcessing' = FALSE]_vars
    /\ [][isProcessing' # isProcessing =>
            \E c \in CaptureIds : captures'[c] # captures[c]]_vars

C22_Witness ==
    /\ ncapture = 2
    /\ CapturesInProgress = {}
    /\ ~isProcessing
    /\ \E c \in CaptureIds : captures[c] = "failed"
    /\ \E c \in CaptureIds : captures[c] = "photo"
    /\ cameraPhase = "mounted"

\* the tip index moves in a step that starts no analysis
TipAdvances == currentTipIndex' # currentTipIndex /\ nreq' = nreq

\* what a rotation tick does: the index moves on by one modulo the number
\* of tips, and nothing else changes but the fade
TickEffect ==
    /\ currentTipIndex' = (currentTipIndex + 1) % HEALTH_TIPS_LENGTH
    /\ UNCHANGED <<routeVars, camVars, isLoading, error, result, htmlContent,
                   abortControllerRef, abortedBy, reqs, nreq, skipped,
                   saveVars, storeVars, now, retryPresses, tipInterval>>

\* C23: currentTipIndex is always a valid index of HEALTH_TIPS, is reset to
\* 0 when an analysis starts, advances by one modulo the list length only
\* while isLoading is true, and a rotation tick changes nothing but the tip
\* index and its fade animation.
C23_TipRotation ==
    /\ [](currentTipIndex \in 0..(HEALTH_TIPS_LENGTH - 1))
    /\ [][nreq' # nreq => currentTipIndex' = 0]_vars
    /\ [][TipAdvances => (isLoading /\ TickEffect)]_vars

\* C23, amended: currentTipIndex is always a valid index of HEALTH_TIPS, is
\* reset to 0 when an analysis starts, and advances by one modulo the list
\* length only while the interval of the rotation effect is installed; the
\* interval is installed only when isLoading is true and only on a mounted
\* screen, and it lasts until the cleanup of the effect runs, which is
\* after isLoading has become false; a rotation tick changes nothing but
\* the tip index and its fade animation.
C23_TipRotationWhileInstalled ==
    /\ [](currentTipIndex \in 0..(HEALTH_TIPS_LENGTH - 1))
    /\ [][nreq' # nreq => currentTipIndex' = 0]_vars
    /\ [][TipAdvances => (tipInterval /\ TickEffect)]_vars
    /\ [][(tipInterval' /\ ~tipInterval) => isLoading]_vars
    /\ [](tipInterval => phase = "mounted")
    /\ [](tipInterval /\ ~isLoading => ENABLED TipEffect)

C23_Witness ==
    /\ ~isLoading
    /\ tipInterval
    /\ InFlight = {}
    /\ currentTipIndex = HEALTH_TIPS_LENGTH - 1
    /\ fadeAnim = "running"
====
